---- MODULE Spec2Model ----
(***************************************************************************)
(* The /scrape endpoint of the Vitibrasil scraper API (src/main.py): the   *)
(* query-parameter constraints, the option/sub-option checks of            *)
(* get_table_data, build_url, the call of scrape_table and the response.   *)
(*                                                                         *)
(* A Python str is a sequence of one-character strings, so that urlencode  *)
(* works on characters.  An Optional value is <<>> (None) or <<v>>.  A     *)
(* dict is the sequence of its items in insertion order.  An f-string is   *)
(* the sequence of its literal parts and interpolated values.              *)
(***************************************************************************)
EXTENDS Integers, Sequences, FiniteSets, TLC

----------------------------------------------------------------------------
(* Python values *)

None == <<>>
Some(v) == <<v>>

\* `if x:` for an Optional[str]: None and "" are falsy
Truthy(o) == o # None /\ o[1] # <<>>

Range(s) == {s[i] : i \in 1..Len(s)}

\* list(d.keys())
Keys(d) == [i \in 1..Len(d) |-> d[i].k]
\* k in d
HasKey(d, key) == \E i \in 1..Len(d) : d[i].k = key
\* d[k]
Get(d, key) == d[CHOOSE i \in 1..Len(d) : d[i].k = key].v

----------------------------------------------------------------------------
(* Tokens *)

s_ano == <<"a","n","o">>
s_opcao == <<"o","p","c","a","o">>
s_subopcao == <<"s","u","b","o","p","c","a","o">>
s_descricao == <<"d","e","s","c","r","i","c","a","o">>
opt_01 == <<"o","p","t","_","0","1">>
opt_02 == <<"o","p","t","_","0","2">>
opt_03 == <<"o","p","t","_","0","3">>
opt_04 == <<"o","p","t","_","0","4">>
opt_05 == <<"o","p","t","_","0","5">>
opt_06 == <<"o","p","t","_","0","6">>
subopt_01 == <<"s","u","b","o","p","t","_","0","1">>
subopt_02 == <<"s","u","b","o","p","t","_","0","2">>
subopt_03 == <<"s","u","b","o","p","t","_","0","3">>
subopt_04 == <<"s","u","b","o","p","t","_","0","4">>
subopt_05 == <<"s","u","b","o","p","t","_","0","5">>
subopt_99 == <<"s","u","b","o","p","t","_","9","9">>

----------------------------------------------------------------------------
(* The catalog *)

Item(key, value) == [k |-> key, v |-> value]

\* the catalog with the first key mistyped
VALID_OPTIONS_Typo ==
    << Item(opt_01, << Item(s_subopcao, None),
                       Item(s_descricao, Some("Produção")) >>),
       Item(opt_03, << Item(subopt_01, Some("Processamento - Viníferas")),
                       Item(subopt_02, Some("Processamento - Americanas e Híbridas")),
                       Item(subopt_03, Some("Processamento - Uvas de Mesa")),
                       Item(subopt_04, Some("Processamento - Sem Classificação")) >>),
       Item(opt_04, << Item(s_subopcao, None),
                       Item(s_descricao, Some("Comercialização")) >>),
       Item(opt_05, << Item(subopt_01, Some("Importação - Vinhos de Mesa")),
                       Item(subopt_02, Some("Importação - Espumantes")),
                       Item(subopt_03, Some("Importação - Uvas Frescas")),
                       Item(subopt_04, Some("Importação - Uvas Passas")),
                       Item(subopt_05, Some("Importação - Suco de Uva")) >>),
       Item(opt_06, << Item(subopt_01, Some("Exportação - Vinhos de Mesa")),
                       Item(subopt_02, Some("Exportação - Espumantes")),
                       Item(subopt_03, Some("Exportação - Uvas Frescas")),
                       Item(subopt_04, Some("Exportação - Suco de Uva")) >>) >>

VALID_OPTIONS ==
    << Item(opt_02, << Item(s_subopcao, None),
                       Item(s_descricao, Some("Produção")) >>),
       Item(opt_03, << Item(subopt_01, Some("Processamento - Viníferas")),
                       Item(subopt_02, Some("Processamento - Americanas e Híbridas")),
                       Item(subopt_03, Some("Processamento - Uvas de Mesa")),
                       Item(subopt_04, Some("Processamento - Sem Classificação")) >>),
       Item(opt_04, << Item(s_subopcao, None),
                       Item(s_descricao, Some("Comercialização")) >>),
       Item(opt_05, << Item(subopt_01, Some("Importação - Vinhos de Mesa")),
                       Item(subopt_02, Some("Importação - Espumantes")),
                       Item(subopt_03, Some("Importação - Uvas Frescas")),
                       Item(subopt_04, Some("Importação - Uvas Passas")),
                       Item(subopt_05, Some("Importação - Suco de Uva")) >>),
       Item(opt_06, << Item(subopt_01, Some("Exportação - Vinhos de Mesa")),
                       Item(subopt_02, Some("Exportação - Espumantes")),
                       Item(subopt_03, Some("Exportação - Uvas Frescas")),
                       Item(subopt_04, Some("Exportação - Suco de Uva")) >>) >>

\* Query(..., ge=1970, le=2024) on ano
GE == 1970
LE == 2024

----------------------------------------------------------------------------
(* build_url *)

base_url == <<"h","t","t","p",":","/","/","v","i","t","i","b","r","a","s","i","l",
              ".","c","n","p","u","v",".","e","m","b","r","a","p","a",".","b","r",
              "/","i","n","d","e","x",".","p","h","p">>

Digits == <<"0","1","2","3","4","5","6","7","8","9">>

\* str(n) for an int
RECURSIVE NatToStr(_)
NatToStr(n) == IF n < 10 THEN <<Digits[n + 1]>>
               ELSE NatToStr(n \div 10) \o <<Digits[(n % 10) + 1]>>
IntToStr(n) == IF n < 0 THEN <<"-">> \o NatToStr(-n) ELSE NatToStr(n)

\* the characters urllib.parse.quote never escapes
AlwaysSafe ==
    {"a","b","c","d","e","f","g","h","i","j","k","l","m","n","o","p","q","r","s",
     "t","u","v","w","x","y","z","A","B","C","D","E","F","G","H","I","J","K","L",
     "M","N","O","P","Q","R","S","T","U","V","W","X","Y","Z","0","1","2","3","4",
     "5","6","7","8","9","_",".","-","~"}

\* '%XX' of the reserved characters of the model's alphabet
PctCode(c) ==
    CASE c = "&" -> <<"%","2","6">>
      [] c = "=" -> <<"%","3","D">>
      [] c = "%" -> <<"%","2","5">>
      [] c = "+" -> <<"%","2","B">>
      [] c = "/" -> <<"%","2","F">>
      [] c = "?" -> <<"%","3","F">>
      [] c = "#" -> <<"%","2","3">>
      [] c = ":" -> <<"%","3","A">>
      [] c = "'" -> <<"%","2","7">>

\* urllib.parse.quote_plus(s), safe = ''
RECURSIVE quote_plus(_)
quote_plus(s) ==
    IF s = <<>> THEN <<>>
    ELSE (IF Head(s) \in AlwaysSafe THEN <<Head(s)>>
          ELSE IF Head(s) = " " THEN <<"+">>
          ELSE PctCode(Head(s))) \o quote_plus(Tail(s))

\* urllib.parse.urlencode(params): k=v pairs joined by '&', in dict order
RECURSIVE urlencode(_)
urlencode(params) ==
    IF params = <<>> THEN <<>>
    ELSE quote_plus(params[1].k) \o <<"=">> \o quote_plus(params[1].v)
         \o (IF Len(params) > 1 THEN <<"&">> \o urlencode(Tail(params)) ELSE <<>>)

\* build_url that leaves the subcategory out
build_url_NoSub(ano, opcao, subopcao) ==
    base_url \o <<"?">>
    \o urlencode(<< Item(s_ano, IntToStr(ano)), Item(s_opcao, opcao) >>)

\* build_url that puts the category first
build_url_Swapped(ano, opcao, subopcao) ==
    LET params0 == << Item(s_opcao, opcao), Item(s_ano, IntToStr(ano)) >>
        params  == IF Truthy(subopcao)
                   THEN Append(params0, Item(s_subopcao, subopcao[1]))
                   ELSE params0
    IN  base_url \o <<"?">> \o urlencode(params)

\* build_url(ano, opcao, subopcao)
build_url(ano, opcao, subopcao) ==
    LET params0 == << Item(s_ano, IntToStr(ano)), Item(s_opcao, opcao) >>
        params  == IF Truthy(subopcao)
                   THEN Append(params0, Item(s_subopcao, subopcao[1]))
                   ELSE params0
    IN  base_url \o <<"?">> \o urlencode(params)

----------------------------------------------------------------------------
(* The query parameters of get_table_data, as FastAPI resolves them *)

\* a raw value of the query parameter ano: an integer, a token that is no
\* integer, or no value at all
RawInt(y) == [tag |-> "int", val |-> y]
RawText == [tag |-> "text"]
RawMissing == [tag |-> "missing"]

ValidationError(type, name) == [type |-> type, loc |-> <<"query", name>>]

\* the lower bound taken as exclusive
AnoErrors_Exclusive(ano) ==
    CASE ano.tag = "missing" -> <<ValidationError("missing", "ano")>>
      [] ano.tag = "text"    -> <<ValidationError("int_parsing", "ano")>>
      [] ano.tag = "int" /\ ano.val <= GE -> <<ValidationError("greater_than", "ano")>>
      [] ano.tag = "int" /\ ano.val > LE -> <<ValidationError("less_than_equal", "ano")>>
      [] OTHER -> <<>>

\* ano: int = Query(..., ge=1970, le=2024)
AnoErrors(ano) ==
    CASE ano.tag = "missing" -> <<ValidationError("missing", "ano")>>
      [] ano.tag = "text"    -> <<ValidationError("int_parsing", "ano")>>
      [] ano.tag = "int" /\ ano.val < GE -> <<ValidationError("greater_than_equal", "ano")>>
      [] ano.tag = "int" /\ ano.val > LE -> <<ValidationError("less_than_equal", "ano")>>
      [] OTHER -> <<>>

\* opcao: str = Query(...)
OpcaoErrors(opcao) ==
    IF opcao = None THEN <<ValidationError("missing", "opcao")>> ELSE <<>>

\* the errors of the request's parameters, in parameter order; subopcao is
\* Optional[str] and has none
ParamErrors(r) == AnoErrors(r.ano) \o OpcaoErrors(r.opcao)

----------------------------------------------------------------------------
(* Responses *)

\* raise HTTPException(status_code, detail), as FastAPI answers it
HTTPException(status_code, detail) ==
    [exc |-> "HTTPException", status_code |-> status_code,
     body |-> [detail |-> detail]]

\* a RequestValidationError, as FastAPI answers it
RequestValidationError(errors) ==
    [exc |-> "RequestValidationError", status_code |-> 422,
     body |-> [detail |-> errors]]

\* a success dict that loses the first row
TableResponse_DropFirst(data, u) ==
    [exc |-> "", status_code |-> 200,
     body |-> [status |-> "success",
               data |-> IF data = <<>> THEN data ELSE Tail(data), url |-> u]]

\* return {"status": "success", "data": data, "url": url}
TableResponse(data, u) ==
    [exc |-> "", status_code |-> 200,
     body |-> [status |-> "success", data |-> data, url |-> u]]

----------------------------------------------------------------------------
(* get_table_data: the checks of opcao and subopcao *)

\* the checks with `subopcao is not None` for `subopcao` in the first branch
CheckOptions_IsNotNone(opcao, subopcao) ==
    IF ~HasKey(VALID_OPTIONS, opcao)
    THEN Some(HTTPException(400,
            <<"Opção inválida. Opções válidas: ", Keys(VALID_OPTIONS)>>))
    ELSE LET option_details == Get(VALID_OPTIONS, opcao)
         IN  IF HasKey(option_details, s_subopcao)
                /\ Get(option_details, s_subopcao) = None
             THEN IF subopcao # None
                  THEN Some(HTTPException(400,
                          <<"A opção '", opcao, "' não aceita subopcao">>))
                  ELSE None
             ELSE IF Truthy(subopcao) /\ ~HasKey(option_details, subopcao[1])
                  THEN Some(HTTPException(400,
                          <<"Subopção inválida para '", opcao,
                            "'. Subopções válidas: ", Keys(option_details)>>))
                  ELSE None

\* the checks with the subcategory required where the category has some
CheckOptions_Required(opcao, subopcao) ==
    IF ~HasKey(VALID_OPTIONS, opcao)
    THEN Some(HTTPException(400,
            <<"Opção inválida. Opções válidas: ", Keys(VALID_OPTIONS)>>))
    ELSE LET option_details == Get(VALID_OPTIONS, opcao)
         IN  IF HasKey(option_details, s_subopcao)
                /\ Get(option_details, s_subopcao) = None
             THEN IF Truthy(subopcao)
                  THEN Some(HTTPException(400,
                          <<"A opção '", opcao, "' não aceita subopcao">>))
                  ELSE None
             ELSE IF ~Truthy(subopcao) \/ ~HasKey(option_details, subopcao[1])
                  THEN Some(HTTPException(400,
                          <<"Subopção inválida para '", opcao,
                            "'. Subopções válidas: ", Keys(option_details)>>))
                  ELSE None

\* None when the checks pass, else the HTTPException raised
CheckOptions(opcao, subopcao) ==
    IF ~HasKey(VALID_OPTIONS, opcao)
    THEN Some(HTTPException(400,
            <<"Opção inválida. Opções válidas: ", Keys(VALID_OPTIONS)>>))
    ELSE LET option_details == Get(VALID_OPTIONS, opcao)
         IN  IF HasKey(option_details, s_subopcao)
                /\ Get(option_details, s_subopcao) = None
             THEN IF Truthy(subopcao)
                  THEN Some(HTTPException(400,
                          <<"A opção '", opcao, "' não aceita subopcao">>))
                  ELSE None
             ELSE IF Truthy(subopcao) /\ ~HasKey(option_details, subopcao[1])
                  THEN Some(HTTPException(400,
                          <<"Subopção inválida para '", opcao,
                            "'. Subopções válidas: ", Keys(option_details)>>))
                  ELSE None

----------------------------------------------------------------------------
(* Inputs *)

YearMargin == 1
MaxRows == 2
MaxRowLen == 1

Years == ((GE - YearMargin)..(GE + YearMargin))
         \cup ((LE - YearMargin)..(LE + YearMargin)) \cup {2020}

AnoInputs == {RawInt(y) : y \in Years} \cup {RawText, RawMissing}

OpcaoInputs ==
    {None} \cup {Some(c) : c \in Range(Keys(VALID_OPTIONS))
                              \cup {opt_01, <<>>, subopt_01, s_subopcao}}

SubopcaoInputs ==
    {None} \cup {Some(s) : s \in {<<>>, subopt_01, subopt_02, subopt_03, subopt_04,
                                  subopt_05, subopt_99, s_subopcao, s_descricao,
                                  opt_03}}

Requests == [ano : AnoInputs, opcao : OpcaoInputs, subopcao : SubopcaoInputs]

\* what scrape_table may return: rows of cells
Cells == {"Produto", "217208604"}
Rows == UNION {[1..n -> Cells] : n \in 0..MaxRowLen}
ResultSets == UNION {[1..n -> Rows] : n \in 0..MaxRows}

\* str(e) of what scrape_table may raise
ErrorTexts == {"HTTPConnectionPool: Read timed out", "list index out of range", ""}

----------------------------------------------------------------------------
(* The state of one request *)

VARIABLES
    pc,            \* where the request is: idle, params, handler, try, scraping, done
    request,       \* the raw query parameters
    url,           \* the handler's local url
    scrape_calls,  \* the arguments of the calls of scrape_table, in order
    scraped,       \* what scrape_table gave: None, <<"ok", data>> or <<"raise", text>>
    response       \* the response sent

vars == <<pc, request, url, scrape_calls, scraped, response>>

Init ==
    /\ pc = "idle"
    /\ request = None
    /\ url = None
    /\ scrape_calls = <<>>
    /\ scraped = None
    /\ response = None

\* GET /scrape?ano=..&opcao=..&subopcao=..
Receive(r) ==
    /\ pc = "idle"
    /\ request' = r
    /\ pc' = "params"
    /\ UNCHANGED <<url, scrape_calls, scraped, response>>

\* FastAPI resolves the parameters before it calls the handler
ResolveParams ==
    /\ pc = "params"
    /\ IF ParamErrors(request) # <<>>
       THEN /\ response' = Some(RequestValidationError(ParamErrors(request)))
            /\ pc' = "done"
       ELSE /\ pc' = "handler"
            /\ UNCHANGED response
    /\ UNCHANGED <<request, url, scrape_calls, scraped>>

\* get_table_data up to the try block
Validate ==
    /\ pc = "handler"
    /\ LET raised == CheckOptions(request.opcao[1], request.subopcao)
       IN  IF raised # None
           THEN /\ response' = raised
                /\ pc' = "done"
           ELSE /\ pc' = "try"
                /\ UNCHANGED response
    /\ UNCHANGED <<request, url, scrape_calls, scraped>>

\* url = build_url(ano, opcao, subopcao); scrape_table(url) is called
CallScrape ==
    /\ pc = "try"
    /\ LET u == build_url(request.ano.val, request.opcao[1], request.subopcao)
       IN  /\ url' = Some(u)
           /\ scrape_calls' = Append(scrape_calls, u)
    /\ pc' = "scraping"
    /\ UNCHANGED <<request, scraped, response>>

\* scrape_table returns data; the handler returns the success dict
ScrapeReturns(data) ==
    /\ pc = "scraping"
    /\ scraped' = <<"ok", data>>
    /\ response' = Some(TableResponse(data, url[1]))
    /\ pc' = "done"
    /\ UNCHANGED <<request, url, scrape_calls>>

\* an extractor failure that sends the handler back to the call
ScrapeRaises_Retry(e) ==
    /\ pc = "scraping"
    /\ scraped' = <<"raise", e>>
    /\ pc' = "try"
    /\ UNCHANGED <<request, url, scrape_calls, response>>

\* scrape_table raises; except Exception as e: raise HTTPException(500, ...)
ScrapeRaises(e) ==
    /\ pc = "scraping"
    /\ scraped' = <<"raise", e>>
    /\ response' = Some(HTTPException(500, <<"Erro ao processar a URL: ", e>>))
    /\ pc' = "done"
    /\ UNCHANGED <<request, url, scrape_calls>>

\* the response is sent and the request's objects are discarded
Finish ==
    /\ pc = "done"
    /\ pc' = "idle"
    /\ request' = None
    /\ url' = None
    /\ scrape_calls' = <<>>
    /\ scraped' = None
    /\ response' = None

Next ==
    \/ \E r \in Requests : Receive(r)
    \/ ResolveParams
    \/ Validate
    \/ CallScrape
    \/ \E data \in ResultSets : ScrapeReturns(data)
    \/ \E e \in ErrorTexts : ScrapeRaises(e)
    \/ Finish

Spec == Init /\ [][Next]_vars

----------------------------------------------------------------------------
(* The vocabulary of the claims: the documented option table, the failure  *)
(* classes and the validated Query                                         *)

CatalogIds == {opt_02, opt_03, opt_04, opt_05, opt_06}
CatalogIdList == <<opt_02, opt_03, opt_04, opt_05, opt_06>>

\* the documented sub-options of a category, in table order
SubIdList(c) ==
    CASE c = opt_03 -> <<subopt_01, subopt_02, subopt_03, subopt_04>>
      [] c = opt_05 -> <<subopt_01, subopt_02, subopt_03, subopt_04, subopt_05>>
      [] c = opt_06 -> <<subopt_01, subopt_02, subopt_03, subopt_04>>
      [] OTHER -> <<>>

YearInRange(y) == 1970 <= y /\ y <= 2024

\* a subcategory is supplied when it is present and non-empty
Supplied(sub) == sub # None /\ sub[1] # <<>>

\* the subcategory is absent, empty, or a documented sub-option of c
LegalSub(c, sub) == Supplied(sub) => sub[1] \in Range(SubIdList(c))

\* the request carries an integer year and a category token
WellFormed(r) == r.ano.tag = "int" /\ r.opcao # None

\* the request is a legal (year, category, subcategory) triple
LegalRequest(r) ==
    /\ WellFormed(r)
    /\ YearInRange(r.ano.val)
    /\ r.opcao[1] \in CatalogIds
    /\ LegalSub(r.opcao[1], r.subopcao)

\* both validation stages have run on the current request
Decided == pc \in {"try", "scraping", "done"}

\* the request got past every check: the try block was entered
ValidationSucceeded ==
    pc \in {"try", "scraping"} \/ (pc = "done" /\ scraped # None)

IsOutOfRange(resp) ==
    /\ resp.exc = "RequestValidationError"
    /\ \E i \in 1..Len(resp.body.detail) :
          /\ resp.body.detail[i].loc = <<"query", "ano">>
          /\ resp.body.detail[i].type \in {"greater_than_equal", "less_than_equal"}

IsUnknownCategory(resp) ==
    /\ resp.exc = "HTTPException"
    /\ resp.body.detail[1] = "Opção inválida. Opções válidas: "

IsUnexpectedSubcategory(resp) ==
    /\ resp.exc = "HTTPException"
    /\ resp.body.detail[1] = "A opção '"
    /\ resp.body.detail[3] = "' não aceita subopcao"

IsUnknownSubcategory(resp) ==
    /\ resp.exc = "HTTPException"
    /\ resp.body.detail[1] = "Subopção inválida para '"

IsExtractionFailure(resp) ==
    /\ resp.exc = "HTTPException"
    /\ resp.body.detail[1] = "Erro ao processar a URL: "

----------------------------------------------------------------------------
(* C1: with a category of the catalog and a legal or absent subcategory,   *)
(* validation succeeds exactly when 1970 <= year <= 2024, and a year       *)
(* outside the interval is rejected as OutOfRange.                         *)
C1_YearBounds ==
    (Decided /\ WellFormed(request)
       /\ request.opcao[1] \in CatalogIds
       /\ LegalSub(request.opcao[1], request.subopcao))
    => /\ ValidationSucceeded <=> YearInRange(request.ano.val)
       /\ ~YearInRange(request.ano.val)
            => pc = "done" /\ IsOutOfRange(response[1])

C1_Witness ==
    /\ pc = "done"
    /\ request.ano.tag = "int" /\ request.ano.val = 2025
    /\ request.opcao = Some(opt_05) /\ request.subopcao = Some(subopt_05)
    /\ IsOutOfRange(response[1])

(* C2 as stated: a category token outside the catalog fails as             *)
(* UnknownCategory, the message listing the valid categories, whatever     *)
(* the year and the subcategory.                                           *)
C2_AnyYear ==
    (Decided /\ WellFormed(request) /\ request.opcao[1] \notin CatalogIds)
    => /\ pc = "done"
       /\ IsUnknownCategory(response[1])
       /\ response[1].body.detail[2] = CatalogIdList

(* C2, amended: for a year within 1970..2024, a category token outside the *)
(* catalog fails as UnknownCategory, the message listing the valid         *)
(* categories, whatever the subcategory.                                   *)
C2_UnknownCategory ==
    (Decided /\ WellFormed(request) /\ YearInRange(request.ano.val)
       /\ request.opcao[1] \notin CatalogIds)
    => /\ pc = "done"
       /\ IsUnknownCategory(response[1])
       /\ response[1].body.detail[2] = CatalogIdList

C2_Witness ==
    /\ pc = "done"
    /\ request.ano.tag = "int" /\ request.ano.val = 2020
    /\ request.opcao = Some(opt_01) /\ request.subopcao = Some(subopt_01)
    /\ IsUnknownCategory(response[1])

(* C3: for opt_02 and opt_04 and a year in range, a non-empty subcategory  *)
(* fails as UnexpectedSubcategory; an empty or absent one passes.          *)
C3_NoSubcategorySupport ==
    (Decided /\ WellFormed(request) /\ YearInRange(request.ano.val)
       /\ request.opcao[1] \in {opt_02, opt_04})
    => IF Supplied(request.subopcao)
       THEN pc = "done" /\ IsUnexpectedSubcategory(response[1])
                        /\ response[1].body.detail[2] = request.opcao[1]
       ELSE ValidationSucceeded

C3_Witness ==
    /\ pc = "done"
    /\ request.ano.tag = "int" /\ request.ano.val = 2020
    /\ request.opcao = Some(opt_04) /\ request.subopcao = Some(subopt_01)
    /\ IsUnexpectedSubcategory(response[1])

C5_FailureStatus ==
    (pc = "done" /\ WellFormed(request))
    => /\ Len(response) = 1
       /\ (scraped = None) => response[1].status_code = 400
       /\ (scraped # None /\ scraped[1] = "raise")
            => /\ response[1].status_code = 500
               /\ IsExtractionFailure(response[1])
               /\ response[1].body.detail[2] = scraped[2]
       /\ response[1].exc # "" => response[1].status_code \in {400, 500}

(* C6: scrape_table is called only once every validation check has        *)
(* passed, and at most once for a request: a request that fails validation *)
(* makes no call, and an extractor failure is not retried.                 *)
C6_ExtractorCalls ==
    /\ [](/\ Len(scrape_calls) <= 1
          /\ scrape_calls # <<>> => LegalRequest(request)
          /\ (pc = "done" /\ ~LegalRequest(request)) => scrape_calls = <<>>)
    /\ [][/\ Len(scrape_calls') > Len(scrape_calls)
               => pc = "try" /\ scraped = None /\ LegalRequest(request)
          /\ scraped # None => Len(scrape_calls') <= Len(scrape_calls)]_vars

C6_Witness ==
    /\ pc = "done"
    /\ scraped # None /\ scraped[1] = "raise"
    /\ Len(scrape_calls) = 1
    /\ response[1].status_code = 500

(* C9 as stated: the checks run in the order year, category, subcategory   *)
(* and stop at the first failure: an out-of-range year is reported as      *)
(* OutOfRange with HTTP 400 whatever the category and subcategory, and an  *)
(* in-range year with an unknown category as UnknownCategory whatever the  *)
(* subcategory.                                                            *)
C9_CheckOrder ==
    (Decided /\ WellFormed(request))
    => /\ ~YearInRange(request.ano.val)
            => /\ pc = "done"
               /\ IsOutOfRange(response[1])
               /\ response[1].status_code = 400
       /\ (YearInRange(request.ano.val) /\ request.opcao[1] \notin CatalogIds)
            => /\ pc = "done"
               /\ IsUnknownCategory(response[1])
               /\ response[1].status_code = 400

\* the envelope is the success dict
IsSuccess(resp) == resp.exc = "" /\ resp.body.status = "success"

(* C10: a request ends in a Success envelope exactly when validation       *)
(* passed and the one call of scrape_table returned; its data is then the  *)
(* rows returned, unchanged, and its url the string passed to              *)
(* scrape_table.  Every other request ends in a Failure that carries no    *)
(* rows.                                                                   *)
C10_NoPartialSuccess ==
    pc = "done"
    => /\ Len(response) = 1
       /\ IsSuccess(response[1])
            <=> (LegalRequest(request) /\ scraped # None /\ scraped[1] = "ok")
       /\ IsSuccess(response[1])
            => /\ Len(scrape_calls) = 1
               /\ response[1].body.data = scraped[2]
               /\ response[1].body.url = scrape_calls[1]
       /\ ~IsSuccess(response[1])
            => /\ response[1].exc # ""
               /\ DOMAIN response[1].body = {"detail"}

C10_Witness ==
    /\ pc = "done"
    /\ IsSuccess(response[1])
    /\ Len(response[1].body.data) = 2
    /\ response[1].body.data[1] # response[1].body.data[2]

----------------------------------------------------------------------------
(* The reader of a request string: what urllib.parse.parse_qsl recovers    *)
(* from the part after '?'                                                 *)

FirstIndex(s, c) == CHOOSE i \in 1..Len(s) : s[i] = c /\ \A j \in 1..(i - 1) : s[j] # c

\* s.partition(c): what precedes the first c and what follows it
Partition(s, c) ==
    IF c \in Range(s)
    THEN <<SubSeq(s, 1, FirstIndex(s, c) - 1), SubSeq(s, FirstIndex(s, c) + 1, Len(s))>>
    ELSE <<s, <<>>>>

\* s.split(c)
RECURSIVE Split(_, _)
Split(s, c) ==
    IF c \in Range(s)
    THEN <<Partition(s, c)[1]>> \o Split(Partition(s, c)[2], c)
    ELSE <<s>>

Reserved == {"&", "=", "%", "+", "/", "?", "#", ":", "'"}

\* urllib.parse.unquote_plus
RECURSIVE unquote_plus(_)
unquote_plus(s) ==
    IF s = <<>> THEN <<>>
    ELSE IF Head(s) = "+" THEN <<" ">> \o unquote_plus(Tail(s))
    ELSE IF Head(s) = "%" /\ Len(s) >= 3
              /\ \E c \in Reserved : PctCode(c) = SubSeq(s, 1, 3)
         THEN <<CHOOSE c \in Reserved : PctCode(c) = SubSeq(s, 1, 3)>>
              \o unquote_plus(SubSeq(s, 4, Len(s)))
    ELSE <<Head(s)>> \o unquote_plus(Tail(s))

\* parse_qsl(qs): the (name, value) pairs in order, blank values dropped
parse_qsl(qs) ==
    LET fields == SelectSeq(Split(qs, "&"), LAMBDA f : f # <<>>)
        pairs  == [i \in 1..Len(fields) |->
                     <<unquote_plus(Partition(fields[i], "=")[1]),
                       unquote_plus(Partition(fields[i], "=")[2])>>]
    IN  SelectSeq(pairs, LAMBDA nv : nv[2] # <<>>)

\* int(s) of a decimal numeral
RECURSIVE StrToNat(_)
StrToNat(s) ==
    IF s = <<>> THEN 0
    ELSE 10 * StrToNat(SubSeq(s, 1, Len(s) - 1))
         + (CHOOSE d \in 0..9 : Digits[d + 1] = s[Len(s)])
IsNumeral(s) == s # <<>> /\ \A i \in 1..Len(s) : s[i] \in Range(Digits)

\* the validated Query of a legal request: an empty subcategory is none
QueryOf(r) ==
    [year |-> r.ano.val, category |-> r.opcao[1],
     subcategory |-> IF Supplied(r.subopcao) THEN r.subopcao ELSE None]

LegalRequests == {r \in Requests : LegalRequest(r)}

(* C7: build_url maps the same validated Query to the same string and two  *)
(* distinct validated Queries (differing in year, category or subcategory, *)
(* present against absent included) to different strings.                  *)
C7_Injective ==
    pc = "scraping"
    => \A r \in LegalRequests :
          (build_url(r.ano.val, r.opcao[1], r.subopcao) = url[1])
             <=> (QueryOf(r) = QueryOf(request))

C7_Witness ==
    /\ pc = "scraping"
    /\ request.opcao = Some(opt_05)
    /\ request.subopcao = Some(<<>>)
    /\ url[1] = build_url(request.ano.val, opt_05, None)
    /\ url[1] # build_url(request.ano.val, opt_05, Some(subopt_05))

(* C8: parsing the query parameters of the string build_url made gives     *)
(* back year, category and subcategory, in that order, the subcategory     *)
(* parameter being there exactly when a subcategory was supplied.          *)
C8_RoundTrip ==
    pc = "scraping"
    => LET parts == Partition(url[1], "?")
           q     == parse_qsl(parts[2])
       IN  /\ "?" \in Range(url[1])
           /\ Len(q) = IF Supplied(request.subopcao) THEN 3 ELSE 2
           /\ q[1][1] = s_ano
           /\ IsNumeral(q[1][2])
           /\ StrToNat(q[1][2]) = request.ano.val
           /\ q[2][1] = s_opcao
           /\ q[2][2] = request.opcao[1]
           /\ Supplied(request.subopcao)
                => q[3][1] = s_subopcao /\ q[3][2] = request.subopcao[1]

C8_Witness ==
    /\ pc = "scraping"
    /\ request.ano.val = 2020
    /\ request.opcao = Some(opt_03)
    /\ request.subopcao = Some(subopt_02)
    /\ Len(parse_qsl(Partition(url[1], "?")[2])) = 3

====
